---------------------------- MODULE Spec2Model ----------------------------
(***************************************************************************)
(* A model of LRUCache (src/lru-es6.js): a Map from keys to Entry objects  *)
(* plus a doubly linked list of the entries.  tail is the least recently   *)
(* used entry, head the most recently used one; entry[PREVIOUS] is the     *)
(* next NEWER entry and entry[NEXT] the next OLDER entry.                   *)
(*                                                                         *)
(* Entry objects live in a heap (a sequence of records, an object's        *)
(* identity being its index); undefined references are NoEntry.  Every     *)
(* method is an operator from the object's state to a record               *)
(* [c, ret, err]: the state it leaves, what it returns, and the exception  *)
(* it throws ("none" when it returns).  A method that throws half way      *)
(* leaves the assignments it has already made.                             *)
(***************************************************************************)
EXTENDS Integers, Sequences, FiniteSets, TLC

\* ------------------------------------------------------------- bounds
NumKeys  == 3
NumVals  == 2
MaxLimit == 3
MaxExpiryLimit == 2
MaxLen   == 2
MaxNow   == 2
MaxAftermath == 1
MaxSets == 3

Keys == 1..NumKeys
Vals == 1..NumVals

\* ---------------------------------------------------------- constants
MsPerMinute == 60000
ClockStep   == MsPerMinute
Lifetimes   == {0, 1}

NoEntry   == 0
Undefined == 0
NoTime    == -1

Range(s) == {s[i] : i \in DOMAIN s}

\* ------------------------------------------------------- Map (native)
MapHas(m, k)    == k \in DOMAIN m
MapGet(m, k)    == IF k \in DOMAIN m THEN m[k] ELSE NoEntry
MapSet(m, k, e) == [x \in DOMAIN m \cup {k} |-> IF x = k THEN e ELSE m[x]]
MapDelete(m, k) == [x \in DOMAIN m \ {k} |-> m[x]]
MapClear        == <<>>
MapSize(m)      == Cardinality(DOMAIN m)

\* --------------------------------------------------------------- Entry
Entry(key, value, t) ==
    [key |-> key, value |-> value, created_at |-> t,
     prev |-> NoEntry, next |-> NoEntry]

SetPrev(h, e, v)  == [h EXCEPT ![e].prev = v]
SetNext(h, e, v)  == [h EXCEPT ![e].next = v]
SetValue(h, e, v) == [h EXCEPT ![e].value = v]

Res(c, ret, err) == [c |-> c, ret |-> ret, err |-> err]

\* ------------------------------------------------------------ variables
VARIABLES heap, keymap, tail, head, size, limit, lifetime, ownCreatedAt,
          now, last, aftermath

cacheVars == <<heap, keymap, tail, head, size, limit, lifetime, ownCreatedAt>>
vars == <<heap, keymap, tail, head, size, limit, lifetime, ownCreatedAt,
          now, last, aftermath>>

this == [heap |-> heap, keymap |-> keymap, tail |-> tail, head |-> head,
         size |-> size, limit |-> limit, lifetime |-> lifetime,
         ownCreatedAt |-> ownCreatedAt]


\* ------------------------------------------------------------- methods
\* A _markEntryAsUsed that leaves the entry where it is.
MarkEntryAsUsedInPlace(c, entry, renewAge, t) == Res(c, Undefined, "none")

\* _markEntryAsUsed(entry, renewAge): unlink entry and put it in front of
\* head.  renewAge stores the time in this[CREATED_AT], a property of the
\* cache object: the entry's own created_at is not assigned.
MarkEntryAsUsed(c, entry, renewAge, t) ==
    IF entry = c.head THEN Res(c, Undefined, "none")
    ELSE IF c.heap[entry].prev = NoEntry THEN Res(c, Undefined, "TypeError")
    ELSE
      LET h1 == SetNext(c.heap, c.heap[entry].prev, c.heap[entry].next)
          c1 == [c EXCEPT !.heap = h1]
      IN IF entry # c.tail /\ h1[entry].next = NoEntry
         THEN Res(c1, Undefined, "TypeError")
         ELSE
           LET h2 == IF entry # c.tail
                     THEN SetPrev(h1, h1[entry].next, h1[entry].prev)
                     ELSE h1
               tail2 == IF entry = c.tail THEN h2[entry].prev ELSE c.tail
               h3 == SetPrev(h2, entry, NoEntry)
               c3 == [c EXCEPT !.heap = h3, !.tail = tail2]
           IN IF c.head = NoEntry THEN Res(c3, Undefined, "TypeError")
              ELSE
                LET h4 == SetPrev(h3, c.head, entry)
                    h5 == SetNext(h4, entry, c.head)
                IN Res([c3 EXCEPT !.heap = h5, !.head = entry,
                                  !.ownCreatedAt = IF renewAge THEN t ELSE @],
                       Undefined, "none")

\* _purgeRemovedEntry(entry)
PurgeRemovedEntry(c, entry) ==
    IF entry = NoEntry THEN Res(c, Undefined, "TypeError")
    ELSE LET h1 == SetNext(SetPrev(c.heap, entry, NoEntry), entry, NoEntry)
         IN Res([c EXCEPT !.heap = h1,
                          !.keymap = MapDelete(c.keymap, h1[entry].key)],
                Undefined, "none")

\* removeLRUItem(): returns <<key, value>>, or <<>> for undefined.
RemoveLRUItemOp(c) ==
    IF c.size = 0 THEN Res(c, <<>>, "none")
    ELSE
      LET entry == c.tail IN
      IF c.size = 1
      THEN LET c1 == [c EXCEPT !.tail = NoEntry, !.head = NoEntry,
                               !.size = @ - 1]
               p  == PurgeRemovedEntry(c1, entry)
           IN IF p.err # "none" THEN Res(p.c, <<>>, p.err)
              ELSE Res(p.c, <<p.c.heap[entry].key, p.c.heap[entry].value>>, "none")
      ELSE IF c.tail = NoEntry THEN Res(c, <<>>, "TypeError")
      ELSE LET t1 == c.heap[c.tail].prev
               c1 == [c EXCEPT !.tail = t1]
           IN IF t1 = NoEntry THEN Res(c1, <<>>, "TypeError")
              ELSE LET c2 == [c1 EXCEPT !.heap = SetNext(@, t1, NoEntry),
                                        !.size = @ - 1]
                       p  == PurgeRemovedEntry(c2, entry)
                   IN Res(p.c, <<p.c.heap[entry].key, p.c.heap[entry].value>>,
                          "none")

\* A delete that decrements size before it looks the key up.
DeleteOpCountsFirst(c, key) ==
    LET entry == MapGet(c.keymap, key) IN
    IF entry = NoEntry THEN Res([c EXCEPT !.size = @ - 1], Undefined, "none")
    ELSE
      LET km == MapDelete(c.keymap, c.heap[entry].key)
          p  == c.heap[entry].prev
          n  == c.heap[entry].next
          c1 == IF p # NoEntry /\ n # NoEntry
                THEN LET h1 == SetPrev(c.heap, n, p)
                     IN [c EXCEPT !.heap = SetNext(h1, h1[entry].prev,
                                                   h1[entry].next)]
                ELSE IF p # NoEntry
                THEN [c EXCEPT !.heap = SetNext(@, p, NoEntry), !.tail = p]
                ELSE IF n # NoEntry
                THEN [c EXCEPT !.heap = SetPrev(@, n, NoEntry), !.head = n]
                ELSE [c EXCEPT !.tail = NoEntry, !.head = NoEntry]
      IN Res([c1 EXCEPT !.keymap = km, !.size = @ - 1],
             c.heap[entry].value, "none")

\* delete(key): returns the value, or Undefined.
DeleteOp(c, key) ==
    LET entry == MapGet(c.keymap, key) IN
    IF entry = NoEntry THEN Res(c, Undefined, "none")
    ELSE
      LET km == MapDelete(c.keymap, c.heap[entry].key)
          p  == c.heap[entry].prev
          n  == c.heap[entry].next
          c1 == IF p # NoEntry /\ n # NoEntry
                THEN LET h1 == SetPrev(c.heap, n, p)
                     IN [c EXCEPT !.heap = SetNext(h1, h1[entry].prev,
                                                   h1[entry].next)]
                ELSE IF p # NoEntry
                THEN [c EXCEPT !.heap = SetNext(@, p, NoEntry), !.tail = p]
                ELSE IF n # NoEntry
                THEN [c EXCEPT !.heap = SetPrev(@, n, NoEntry), !.head = n]
                ELSE [c EXCEPT !.tail = NoEntry, !.head = NoEntry]
      IN Res([c1 EXCEPT !.keymap = km, !.size = @ - 1],
             c.heap[entry].value, "none")

\* has(key): the age is (now - created_at) / 60000 minutes, a real number;
\* age > lifetime is compared here without the division.
Expired(c, entry, t) ==
    (t - c.heap[entry].created_at) > c.lifetime * MsPerMinute

\* A has that first sweeps the oldest entry away when that one has expired.
HasOpSweeping(c, key, t) ==
    LET c1 == IF c.lifetime # 0 /\ c.tail # NoEntry /\ Expired(c, c.tail, t)
              THEN DeleteOp(c, c.heap[c.tail].key).c
              ELSE c
    IN IF MapHas(c1.keymap, key)
       THEN IF c1.lifetime = 0 THEN Res(c1, TRUE, "none")
            ELSE LET entry == MapGet(c1.keymap, key) IN
                 IF Expired(c1, entry, t)
                 THEN LET d == DeleteOp(c1, key) IN Res(d.c, FALSE, d.err)
                 ELSE Res(c1, TRUE, "none")
       ELSE Res(c1, FALSE, "none")

\* A has that marks a live entry as used, as get does.
HasOpTouching(c, key, t) ==
    IF MapHas(c.keymap, key)
    THEN LET entry == MapGet(c.keymap, key) IN
         IF c.lifetime # 0 /\ Expired(c, entry, t)
         THEN LET d == DeleteOp(c, key) IN Res(d.c, FALSE, d.err)
         ELSE LET m == MarkEntryAsUsed(c, entry, FALSE, t)
              IN Res(m.c, TRUE, m.err)
    ELSE Res(c, FALSE, "none")

HasOp(c, key, t) ==
    IF MapHas(c.keymap, key)
    THEN IF c.lifetime = 0 THEN Res(c, TRUE, "none")
         ELSE LET entry == MapGet(c.keymap, key) IN
              IF Expired(c, entry, t)
              THEN LET d == DeleteOp(c, key) IN Res(d.c, FALSE, d.err)
              ELSE Res(c, TRUE, "none")
    ELSE Res(c, FALSE, "none")

\* A get that looks the key up in the Map without calling has: no expiry.
GetOpUnchecked(c, key, t) ==
    IF ~MapHas(c.keymap, key) THEN Res(c, Undefined, "notFound")
    ELSE LET entry == MapGet(c.keymap, key)
             m == MarkEntryAsUsed(c, entry, FALSE, t)
         IN IF m.err # "none" THEN Res(m.c, Undefined, m.err)
            ELSE Res(m.c, m.c.heap[entry].value, "none")

\* get(key)
\* A get that gives the entry it returns a new creation time.
GetOpRenewing(c, key, t) ==
    LET h == HasOp(c, key, t) IN
    IF h.err # "none" THEN Res(h.c, Undefined, h.err)
    ELSE IF ~h.ret THEN Res(h.c, Undefined, "notFound")
    ELSE LET entry == MapGet(h.c.keymap, key)
             m == MarkEntryAsUsed(h.c, entry, FALSE, t)
         IN IF m.err # "none" THEN Res(m.c, Undefined, m.err)
            ELSE Res([m.c EXCEPT !.heap[entry].created_at = t],
                     m.c.heap[entry].value, "none")

GetOp(c, key, t) ==
    LET h == HasOp(c, key, t) IN
    IF h.err # "none" THEN Res(h.c, Undefined, h.err)
    ELSE IF ~h.ret THEN Res(h.c, Undefined, "notFound")
    ELSE LET entry == MapGet(h.c.keymap, key)
             m == MarkEntryAsUsed(h.c, entry, FALSE, t)
         IN IF m.err # "none" THEN Res(m.c, Undefined, m.err)
            ELSE Res(m.c, m.c.heap[entry].value, "none")

\* A set that moves an existing entry to the newest end without storing
\* the new value.
SetOpKeepsValue(c, key, value, t) ==
    IF MapHas(c.keymap, key)
    THEN MarkEntryAsUsed(c, MapGet(c.keymap, key), TRUE, t)
    ELSE
      LET entry == Len(c.heap) + 1
          h0 == Append(c.heap, Entry(key, value, t))
          c1 == [c EXCEPT !.heap = h0, !.keymap = MapSet(@, key, entry)]
      IN IF c.size > 0 /\ c.head = NoEntry THEN Res(c1, Undefined, "TypeError")
         ELSE
           LET c2 == IF c.size > 0
                     THEN [c1 EXCEPT !.heap = SetNext(SetPrev(@, c.head, entry),
                                                      entry, c.head)]
                     ELSE [c1 EXCEPT !.tail = entry]
               c3 == [c2 EXCEPT !.head = entry, !.size = @ + 1]
           IN IF c3.size > c3.limit
              THEN LET r == RemoveLRUItemOp(c3) IN Res(r.c, Undefined, r.err)
              ELSE Res(c3, Undefined, "none")

\* set(key, value): returns this (modelled as Undefined).
SetOp(c, key, value, t) ==
    IF MapHas(c.keymap, key)
    THEN LET entry == MapGet(c.keymap, key)
             c1 == [c EXCEPT !.heap = SetValue(@, entry, value)]
         IN MarkEntryAsUsed(c1, entry, TRUE, t)
    ELSE
      LET entry == Len(c.heap) + 1
          h0 == Append(c.heap, Entry(key, value, t))
          c1 == [c EXCEPT !.heap = h0, !.keymap = MapSet(@, key, entry)]
      IN IF c.size > 0 /\ c.head = NoEntry THEN Res(c1, Undefined, "TypeError")
         ELSE
           LET c2 == IF c.size > 0
                     THEN [c1 EXCEPT !.heap = SetNext(SetPrev(@, c.head, entry),
                                                      entry, c.head)]
                     ELSE [c1 EXCEPT !.tail = entry]
               c3 == [c2 EXCEPT !.head = entry, !.size = @ + 1]
           IN IF c3.size > c3.limit
              THEN LET r == RemoveLRUItemOp(c3) IN Res(r.c, Undefined, r.err)
              ELSE Res(c3, Undefined, "none")

\* A clear that resets head, size and the Map but not tail.
ClearOpKeepsTail(c) ==
    Res([c EXCEPT !.head = NoEntry, !.size = 0, !.keymap = MapClear],
        Undefined, "none")

\* clear()
ClearOp(c) ==
    Res([c EXCEPT !.tail = NoEntry, !.head = NoEntry, !.size = 0,
                  !.keymap = MapClear], Undefined, "none")

\* A find that marks the entry it returns as used, as get does.
FindOpTouching(c, key) ==
    LET e == MapGet(c.keymap, key) IN
    IF e = NoEntry THEN Res(c, Undefined, "none")
    ELSE LET m == MarkEntryAsUsed(c, e, FALSE, NoTime)
         IN Res(m.c, c.heap[e].value, m.err)

\* find(key)
FindOp(c, key) ==
    LET e == MapGet(c.keymap, key) IN
    Res(c, IF e # NoEntry THEN c.heap[e].value ELSE Undefined, "none")

\* assign(entries): entries is a sequence of <<key, value>> pairs.  budget
\* is the local variable limit, Unbounded standing for Number.MAX_VALUE;
\* lastAdded is lastAddedEntry.  The overflow test comes after the entry
\* was stored and linked; the throw leaves head and size as they were.
Unbounded == -1

\* An assign loop that counts the entry down before the overflow test
\* (--limit === 0): the load of exactly limit pairs throws.
RECURSIVE AssignLoopEarly(_, _, _, _, _, _)
AssignLoopEarly(c, entries, i, lastAdded, budget, t) ==
    IF i > Len(entries)
    THEN Res([c EXCEPT !.head = lastAdded, !.size = MapSize(c.keymap)],
             Undefined, "none")
    ELSE
      LET newEntry == Len(c.heap) + 1
          h0 == Append(c.heap, Entry(entries[i][1], entries[i][2], t))
          c1 == [c EXCEPT !.heap = h0,
                          !.keymap = MapSet(@, entries[i][1], newEntry)]
          c2 == IF lastAdded = NoEntry
                THEN [c1 EXCEPT !.tail = newEntry]
                ELSE [c1 EXCEPT !.heap = SetNext(SetPrev(@, lastAdded, newEntry),
                                                 newEntry, lastAdded)]
          left == IF budget = Unbounded THEN Unbounded ELSE budget - 1
      IN IF left = 0 THEN Res(c2, Undefined, "overflow")
         ELSE AssignLoopEarly(c2, entries, i + 1, newEntry, left, t)

RECURSIVE AssignLoop(_, _, _, _, _, _)
AssignLoop(c, entries, i, lastAdded, budget, t) ==
    IF i > Len(entries)
    THEN Res([c EXCEPT !.head = lastAdded, !.size = MapSize(c.keymap)],
             Undefined, "none")
    ELSE
      LET newEntry == Len(c.heap) + 1
          h0 == Append(c.heap, Entry(entries[i][1], entries[i][2], t))
          c1 == [c EXCEPT !.heap = h0,
                          !.keymap = MapSet(@, entries[i][1], newEntry)]
          c2 == IF lastAdded = NoEntry
                THEN [c1 EXCEPT !.tail = newEntry]
                ELSE [c1 EXCEPT !.heap = SetNext(SetPrev(@, lastAdded, newEntry),
                                                 newEntry, lastAdded)]
      IN IF budget = 0 THEN Res(c2, Undefined, "overflow")
         ELSE AssignLoop(c2, entries, i + 1, newEntry,
                         IF budget = Unbounded THEN Unbounded ELSE budget - 1, t)

\* An assign that, on a cache whose limit is 0, sets limit to the number of
\* entries held, as the constructor does after its load.
AssignOpSettingLimit(c, entries, t) ==
    LET a == AssignLoop([c EXCEPT !.keymap = MapClear], entries, 1, NoEntry,
                        IF c.limit # 0 THEN c.limit ELSE Unbounded, t)
    IN IF a.err = "none" /\ c.limit < 1
       THEN Res([a.c EXCEPT !.limit = a.c.size], a.ret, a.err)
       ELSE a

AssignOp(c, entries, t) ==
    AssignLoop([c EXCEPT !.keymap = MapClear], entries, 1, NoEntry,
               IF c.limit # 0 THEN c.limit ELSE Unbounded, t)


\* constructor(lifetime, limit, entries).  limitGiven = FALSE is the call
\* (lifetime, entries) or (lifetime): limit is then not a number and becomes
\* 0.  entriesGiven = FALSE is entries undefined.
ConstructorOp(lt, limitGiven, lim, entriesGiven, entries, t) ==
    LET l0 == IF limitGiven THEN lim ELSE 0
        c0 == [heap |-> <<>>, keymap |-> MapClear, tail |-> NoEntry,
               head |-> NoEntry, size |-> 0, limit |-> l0, lifetime |-> lt,
               ownCreatedAt |-> NoTime]
    IN IF entriesGiven
       THEN LET a == AssignOp(c0, entries, t) IN
            IF a.err # "none" THEN a
            ELSE IF l0 < 1 THEN Res([a.c EXCEPT !.limit = a.c.size],
                                    Undefined, "none")
            ELSE a
       ELSE Res(c0, Undefined, "none")

\* ----------------------------------------------------------- traversal
\* The entries met from entry e on, following PREVIOUS (towards the newer
\* end), as the iterators, forEach, toJSON and toString walk them.  A walk
\* of more than Len(heap) entries has entered a cycle and never ends.
RECURSIVE Walk(_, _, _)
Walk(h, e, fuel) ==
    IF e = NoEntry \/ fuel = 0 THEN <<>>
    ELSE <<e>> \o Walk(h, h[e].prev, fuel - 1)

\* The same from entry e following NEXT (towards the older end).
RECURSIVE WalkBack(_, _, _)
WalkBack(h, e, fuel) ==
    IF e = NoEntry \/ fuel = 0 THEN <<>>
    ELSE <<e>> \o WalkBack(h, h[e].next, fuel - 1)

Chain(c)     == Walk(c.heap, c.tail, Len(c.heap) + 1)
BackChain(c) == WalkBack(c.heap, c.head, Len(c.heap) + 1)
Diverges(c)  == Len(Chain(c)) > Len(c.heap)

\* keys(), values() and the entry iterator, run to the end.
KeysOf(c)    == [i \in 1..Len(Chain(c)) |-> c.heap[Chain(c)[i]].key]
ValuesOf(c)  == [i \in 1..Len(Chain(c)) |-> c.heap[Chain(c)[i]].value]
EntriesOf(c) == [i \in 1..Len(Chain(c)) |->
                   <<c.heap[Chain(c)[i]].key, c.heap[Chain(c)[i]].value>>]

\* ------------------------------------------------- object identities
\* Entry objects no reference leads to are garbage, and which index names
\* an object is not observable: after every method the heap keeps the
\* objects reachable from tail, head and the Map, numbered in the order a
\* depth-first walk from those roots meets them.
RECURSIVE Visit(_, _, _)
Visit(h, todo, done) ==
    IF todo = <<>> THEN done
    ELSE LET e == Head(todo) IN
         IF e = NoEntry \/ e \in Range(done)
         THEN Visit(h, Tail(todo), done)
         ELSE Visit(h, <<h[e].prev, h[e].next>> \o Tail(todo), Append(done, e))

Roots(c) == <<c.tail, c.head>> \o [k \in 1..NumKeys |-> MapGet(c.keymap, k)]

Normalize(c) ==
    LET ord == Visit(c.heap, Roots(c), <<>>)
        ren(e) == IF e = NoEntry THEN NoEntry
                  ELSE CHOOSE i \in 1..Len(ord) : ord[i] = e
    IN [c EXCEPT
          !.heap = [i \in 1..Len(ord) |->
                      [c.heap[ord[i]] EXCEPT !.prev = ren(@), !.next = ren(@)]],
          !.keymap = [k \in DOMAIN c.keymap |-> ren(c.keymap[k])],
          !.tail = ren(@),
          !.head = ren(@)]

\* ------------------------------------------------------------- actions
\* Every action is one call of a public method; last records the call, what
\* it returned or threw, and the state it was made in.
\*
\* A failed assign leaves size as it was while the Map is refilled, so that
\* assign and delete in turn lower size without end, and the objects a bulk
\* load leaves half linked multiply the states.  aftermath is 0 until the
\* first bulk load (assign, or initial entries given to the constructor), then
\* 1 plus the number of calls made since: a run is followed for MaxAftermath
\* calls after its first bulk load.
EntryLists == UNION {[1..n -> Keys \X Vals] : n \in 0..MaxLen}

Call(op, key, value, entries, r0) ==
    /\ aftermath < 1 + MaxAftermath
    /\ \E r \in {r0} : \E c \in {Normalize(r.c)} :
       /\ heap' = c.heap
       /\ keymap' = c.keymap
       /\ tail' = c.tail
       /\ head' = c.head
       /\ size' = c.size
       /\ limit' = c.limit
       /\ lifetime' = c.lifetime
       /\ ownCreatedAt' = c.ownCreatedAt
       /\ last' = [op |-> op, key |-> key, value |-> value,
                   entries |-> entries, ret |-> r.ret, err |-> r.err,
                   pre |-> this, at |-> now]
    /\ now' = now
    /\ aftermath' = IF op = "assign" \/ aftermath > 0 THEN aftermath + 1 ELSE 0

\* The state after new LRUCache(...) returned: a constructor that throws
\* leaves no object behind.
Init ==
    \E lt \in Lifetimes, limitGiven \in BOOLEAN, lim \in 0..MaxLimit,
       entriesGiven \in BOOLEAN, entries \in EntryLists :
       /\ limitGiven \/ lim = 0
       /\ entriesGiven \/ entries = <<>>
       /\ \E r \in {ConstructorOp(lt, limitGiven, lim, entriesGiven, entries, 0)} :
          \E c \in {Normalize(r.c)} :
             /\ r.err = "none"
             /\ heap = c.heap
             /\ keymap = c.keymap
             /\ tail = c.tail
             /\ head = c.head
             /\ size = c.size
             /\ limit = c.limit
             /\ lifetime = c.lifetime
             /\ ownCreatedAt = c.ownCreatedAt
             /\ now = 0
             /\ aftermath = IF entriesGiven THEN 1 ELSE 0
             /\ last = [op |-> "new", key |-> 0, value |-> 0,
                        entries |-> entries, ret |-> Undefined, err |-> "none",
                        pre |-> c, at |-> 0]

Set == \E k \in Keys, v \in Vals : Call("set", k, v, <<>>, SetOp(this, k, v, now))
Get == \E k \in Keys : Call("get", k, 0, <<>>, GetOp(this, k, now))
Has == \E k \in Keys : Call("has", k, 0, <<>>, HasOp(this, k, now))
Find == \E k \in Keys : Call("find", k, 0, <<>>, FindOp(this, k))
Delete == \E k \in Keys : Call("delete", k, 0, <<>>, DeleteOp(this, k))
RemoveLRUItem == Call("removeLRUItem", 0, 0, <<>>, RemoveLRUItemOp(this))
Clear == Call("clear", 0, 0, <<>>, ClearOp(this))

Assign == \E es \in EntryLists : Call("assign", 0, 0, es, AssignOp(this, es, now))

\* The clock (new Date().getTime()) moves between calls, never inside one.
\* With lifetime 0 has returns before it reads the clock, and no method but
\* toJSON and toString reads created_at: the clock is followed only when
\* lifetime is not 0.
Tick ==
    /\ lifetime # 0
    /\ now < MaxNow * ClockStep
    /\ now' = now + ClockStep
    /\ last' = [op |-> "tick", key |-> 0, value |-> 0, entries |-> <<>>,
                ret |-> Undefined, err |-> "none", pre |-> this, at |-> now]
    /\ UNCHANGED <<cacheVars, aftermath>>

\* The whole machine: every constructor call, every method, the clock.
Next ==
    \/ Set
    \/ Get
    \/ Has
    \/ Find
    \/ Delete
    \/ RemoveLRUItem
    \/ Clear
    \/ Assign
    \/ Tick

SpecFull == Init /\ [][Next]_vars

\* The cache built without initial entries and used through every method but
\* assign, with the clock running.  Caches whose entries expire are followed
\* up to the limit MaxExpiryLimit.
InitEmpty == Init /\ aftermath = 0
InitCore  == InitEmpty /\ (lifetime = 0 \/ limit <= MaxExpiryLimit)

NextCore ==
    \/ Set
    \/ Get
    \/ Has
    \/ Find
    \/ Delete
    \/ RemoveLRUItem
    \/ Clear
    \/ Tick

Spec == InitCore /\ [][NextCore]_vars

\* Every constructor call and every method, assign included, with expiry
\* disabled (lifetime 0) and all calls made within one clock reading.
InitNoExpiry == Init /\ lifetime = 0

NextAssign ==
    \/ Set
    \/ Get
    \/ Has
    \/ Find
    \/ Delete
    \/ RemoveLRUItem
    \/ Clear
    \/ Assign

SpecAssign == InitNoExpiry /\ [][NextAssign]_vars

\* ------------------------------------------------------ views of a state
Last(s) == s[Len(s)]

RECURSIVE Without(_, _)
Without(s, x) ==
    IF s = <<>> THEN <<>>
    ELSE IF Head(s) = x THEN Without(Tail(s), x)
    ELSE <<Head(s)>> \o Without(Tail(s), x)

RECURSIVE Restrict(_, _)
Restrict(s, S) ==
    IF s = <<>> THEN <<>>
    ELSE IF Head(s) \in S THEN <<Head(s)>> \o Restrict(Tail(s), S)
    ELSE Restrict(Tail(s), S)

\* What a traversal shows of the entries ids, in that order.
Shown(c, ids) == [i \in 1..Len(ids) |-> <<c.heap[ids[i]].key, c.heap[ids[i]].value>>]

IndexKeys(c) == DOMAIN c.keymap
Stored(c, k) == c.heap[c.keymap[k]].value
Live(c, k, t) == MapHas(c.keymap, k) /\ (c.lifetime = 0 \/ ~Expired(c, c.keymap[k], t))

Returned == last.err = "none"
pre == last.pre

\* ---------------------------------------------------------------- claims

\* C1: whenever a set call returns, size and the number of entries reachable
\* from the oldest end are at most the limit.
C1_CapacityBound ==
    (last.op = "set" /\ Returned) =>
        (size <= limit /\ Len(Chain(this)) <= limit)

\* C2 (as claimed): a set of a new key at size = limit removes exactly the
\* oldest entry, keeps the others in order and leaves the key as the newest.
C2_EvictsOldest ==
    (last.op = "set" /\ pre.size = pre.limit /\ ~MapHas(pre.keymap, last.key)) =>
        /\ Returned
        /\ EntriesOf(pre) # <<>>
        /\ EntriesOf(this) = Tail(EntriesOf(pre)) \o <<<<last.key, last.value>>>>
        /\ IndexKeys(this) = (IndexKeys(pre) \ {Head(KeysOf(pre))}) \cup {last.key}
        /\ size = pre.size

\* the last call was a set or a successful get
Touched == last.op = "set" \/ (last.op = "get" /\ Returned)

\* C3: the traversal is the live keys in the order of their last set or
\* successful get.  Step by step: a set or a successful get of k turns the
\* traversal into the one before without k, then k; every other call keeps
\* the order; and in both cases only the keys still in the index are left,
\* each once.  The oldest end is what removeLRUItem removes.
C3_RecencyOrder ==
    LET before   == KeysOf(pre)
        expected == IF Touched THEN Without(before, last.key) \o <<last.key>>
                    ELSE before
    IN /\ KeysOf(this) = Restrict(expected, IndexKeys(this))
       /\ Range(KeysOf(this)) = IndexKeys(this)
       /\ Len(KeysOf(this)) = Cardinality(IndexKeys(this))
       /\ (Touched /\ MapHas(keymap, last.key)) => Last(KeysOf(this)) = last.key
       /\ KeysOf(this) # <<>> =>
            RemoveLRUItemOp(this).ret[1] = Head(KeysOf(this))
       /\ (last.op = "removeLRUItem" /\ before # <<>>) =>
            last.ret[1] = Head(before)

\* a get moved an entry from the middle of three to the newest end
C3_Witness ==
    /\ last.op = "get"
    /\ Returned
    /\ Len(KeysOf(pre)) = 3
    /\ KeysOf(pre)[2] = last.key
    /\ Last(KeysOf(this)) = last.key

\* C4 (as claimed): from every state, set(k, v) then get(k) returns v and
\* leaves k the newest entry.
C4_SetThenGet ==
    \A k \in Keys, v \in Vals :
        LET s == SetOp(this, k, v, now)
            g == GetOp(s.c, k, now)
        IN /\ s.err = "none"
           /\ g.err = "none"
           /\ g.ret = v
           /\ KeysOf(g.c) # <<>>
           /\ Last(KeysOf(g.c)) = k

\* C5: a get of a key that is present and not expired returns its value and
\* moves its entry to the newest end; size, the keys, the values and the
\* order of the other entries stay.
C5_GetHit ==
    (last.op = "get" /\ Live(pre, last.key, last.at)) =>
        LET e == pre.keymap[last.key] IN
        /\ Returned
        /\ last.ret = pre.heap[e].value
        /\ EntriesOf(this) = Shown(pre, Without(Chain(pre), e) \o <<e>>)
        /\ size = pre.size
        /\ IndexKeys(this) = IndexKeys(pre)
        /\ \A k \in IndexKeys(pre) : Stored(this, k) = Stored(pre, k)

\* C6: get throws notFound exactly when has would return false; it returns
\* no value of an expired entry; an absent key leaves the state as it was, an
\* expired key is removed and nothing else changes.
C6_GetMiss ==
    last.op = "get" =>
        LET present == MapHas(pre.keymap, last.key)
            e       == pre.keymap[last.key]
            expired == present /\ pre.lifetime # 0 /\ Expired(pre, e, last.at)
        IN /\ (last.err = "notFound") <=> ~HasOp(pre, last.key, last.at).ret
           /\ (last.err = "notFound") <=> (~present \/ expired)
           /\ Returned => ~expired
           /\ ~present => this = pre
           /\ expired =>
                /\ size = pre.size - 1
                /\ IndexKeys(this) = IndexKeys(pre) \ {last.key}
                /\ EntriesOf(this) = Shown(pre, Without(Chain(pre), e))
                /\ \A k \in IndexKeys(this) : Stored(this, k) = Stored(pre, k)

\* a get found its key expired and removed it, another entry staying
C6_Witness ==
    /\ last.op = "get"
    /\ last.err = "notFound"
    /\ MapHas(pre.keymap, last.key)
    /\ size = 1
    /\ pre.size = 2

\* the clock readings of a call made now or later
Later == {now + j * ClockStep : j \in 0..MaxNow}

\* C7 (as claimed): has(k) on an absent key returns false and changes
\* nothing; after a set or a successful get of k at the time now, a has(k)
\* made later returns false and deletes k when more than lifetime minutes
\* have passed since that call, and returns true and changes nothing
\* otherwise.
C7_HasExpiry ==
    lifetime # 0 =>
        \A k \in Keys :
            /\ ~MapHas(keymap, k) => HasOp(this, k, now) = Res(this, FALSE, "none")
            /\ \A v \in Vals, t2 \in Later :
                 \A touch \in {SetOp(this, k, v, now), GetOp(this, k, now)} :
                    (touch.err = "none" /\ MapHas(touch.c.keymap, k)) =>
                        LET h == HasOp(touch.c, k, t2) IN
                        IF t2 - now > lifetime * MsPerMinute
                        THEN h.ret = FALSE /\ ~MapHas(h.c.keymap, k)
                        ELSE h.ret = TRUE /\ h.c = touch.c

\* C8 (as claimed): after set(k, v) on a key already present, has(k) is true
\* and get(k) succeeds at every time up to lifetime minutes after the set.
C8_SetRenewsAge ==
    lifetime # 0 =>
        \A k \in IndexKeys(this), v \in Vals, t2 \in Later :
            LET s == SetOp(this, k, v, now) IN
            (t2 - now <= lifetime * MsPerMinute) =>
                /\ s.err = "none"
                /\ HasOp(s.c, k, t2).ret = TRUE
                /\ GetOp(s.c, k, t2).err = "none"

\* C9 (as claimed): set(k, v) on a key already present replaces the value,
\* moves the entry to the newest end and changes nothing else.
C9_SetExisting ==
    (last.op = "set" /\ MapHas(pre.keymap, last.key)) =>
        LET e == pre.keymap[last.key] IN
        /\ Returned
        /\ EntriesOf(this) =
             Shown(pre, Without(Chain(pre), e)) \o <<<<last.key, last.value>>>>
        /\ size = pre.size
        /\ IndexKeys(this) = IndexKeys(pre)
        /\ Stored(this, last.key) = last.value
        /\ \A k \in IndexKeys(pre) \ {last.key} : Stored(this, k) = Stored(pre, k)

\* C10 (as claimed): delete(k) of a present key returns its value, removes k
\* from the index and the chain, decrements size and leaves the other
\* entries, their values and their order, the two ends being the extreme
\* entries left.
C10_DeletePresent ==
    (last.op = "delete" /\ MapHas(pre.keymap, last.key)) =>
        LET e == pre.keymap[last.key] IN
        /\ Returned
        /\ last.ret = pre.heap[e].value
        /\ IndexKeys(this) = IndexKeys(pre) \ {last.key}
        /\ last.key \notin Range(KeysOf(this))
        /\ EntriesOf(this) = Shown(pre, Without(Chain(pre), e))
        /\ size = pre.size - 1
        /\ \A k \in IndexKeys(this) : Stored(this, k) = Stored(pre, k)
        /\ tail = (IF Chain(this) = <<>> THEN NoEntry ELSE Head(Chain(this)))
        /\ head = (IF Chain(this) = <<>> THEN NoEntry ELSE Last(Chain(this)))

\* C11 (as claimed): removeLRUItem on a cache that holds entries returns the
\* oldest entry's <<key, value>>, removes it from the index and the chain,
\* decrements size and leaves the others in order, the next oldest at the
\* oldest end; on an empty cache it returns undefined and changes nothing.
C11_RemoveLRUItem ==
    last.op = "removeLRUItem" =>
        /\ (pre.size > 0 /\ EntriesOf(pre) # <<>>) =>
              /\ Returned
              /\ last.ret = Head(EntriesOf(pre))
              /\ EntriesOf(this) = Tail(EntriesOf(pre))
              /\ size = pre.size - 1
              /\ IndexKeys(this) = IndexKeys(pre) \ {Head(KeysOf(pre))}
              /\ head = (IF Chain(this) = <<>> THEN NoEntry ELSE Last(Chain(this)))
        /\ (pre.size = 0 /\ EntriesOf(pre) = <<>> /\ IndexKeys(pre) = {}) =>
              /\ Returned
              /\ last.ret = <<>>
              /\ this = pre

\* the keys of a sequence of <<key, value>> pairs
PairKeys(entries) == {entries[i][1] : i \in DOMAIN entries}

\* C12 (as claimed): after assign(entries) returned, the traversal yields the
\* pairs of the input in input order, size is the number of entries held,
\* and no key outside the input is seen by traversal, has or find.
C12_AssignReplaces ==
    (last.op = "assign" /\ Returned) =>
        /\ EntriesOf(this) = last.entries
        /\ size = Len(Chain(this))
        /\ \A k \in Keys \ PairKeys(last.entries) :
              /\ k \notin Range(KeysOf(this))
              /\ HasOp(this, k, now).ret = FALSE
              /\ FindOp(this, k).ret = Undefined

\* C13: on a cache whose limit is a positive number L, assign throws overflow
\* exactly when more than L pairs are supplied, and so does the
\* constructor's initial load; nothing else is thrown.
C13_OverflowIff ==
    /\ (last.op = "assign" /\ pre.limit >= 1) =>
          /\ last.err \in {"none", "overflow"}
          /\ (last.err = "overflow") <=> (Len(last.entries) > pre.limit)
    /\ last.op = "new" =>
          \A lim \in 1..MaxLimit, es \in EntryLists :
             LET r == ConstructorOp(lifetime, TRUE, lim, TRUE, es, now) IN
             /\ r.err \in {"none", "overflow"}
             /\ (r.err = "overflow") <=> (Len(es) > lim)

\* an assign of one pair more than the limit threw overflow
C13_Witness ==
    /\ last.op = "assign"
    /\ last.err = "overflow"
    /\ pre.limit >= 1
    /\ Len(last.entries) = pre.limit + 1

\* The list of c is an acyclic doubly linked sequence of c.size entries
\* between c.tail and c.head.
WellLinked(c) ==
    LET up   == Chain(c)
        down == BackChain(c)
    IN /\ Len(up) = c.size
       /\ Len(down) = c.size
       /\ up # <<>> => (Last(up) = c.head /\ Last(down) = c.tail)
       /\ up = <<>> => (c.head = NoEntry /\ c.tail = NoEntry)
       /\ \A i \in 1..(Len(up) - 1) :
             /\ c.heap[up[i]].prev = up[i + 1]
             /\ c.heap[up[i + 1]].next = up[i]
       /\ up # <<>> => (c.heap[Head(up)].next = NoEntry
                          /\ c.heap[Last(up)].prev = NoEntry)

\* C14 (as claimed): in every reachable state the list is an acyclic doubly
\* linked sequence: size entries from the oldest end to the newest end by
\* the newer-links, size entries back by the older-links, links mutual.
C14_ChainWellFormed == WellLinked(this)

\* The Map of c and its chain hold the same keys, every chain entry being
\* the one the Map holds for its key, and c.size counts the keys.
IndexAgrees(c) ==
    /\ Range(KeysOf(c)) = IndexKeys(c)
    /\ \A i \in 1..Len(Chain(c)) :
          MapGet(c.keymap, c.heap[Chain(c)[i]].key) = Chain(c)[i]
    /\ c.size = MapSize(c.keymap)
    /\ c.size >= 0

\* C15 (as claimed): in every reachable state the keys of the index are the
\* keys of the chain's entries, each key maps to the one chain entry that
\* carries it, and size is the number of keys in the index.
C15_IndexChainAgree == IndexAgrees(this)

\* C16 (as claimed): on a cache whose limit is 0 a set of a new key evicts
\* nothing: the key is present afterwards, every key held before is still
\* held, and size has grown by one.
C16_ZeroIsUnbounded ==
    (last.op = "set" /\ pre.limit = 0 /\ ~MapHas(pre.keymap, last.key)) =>
        /\ Returned
        /\ size = pre.size + 1
        /\ IndexKeys(this) = IndexKeys(pre) \cup {last.key}
        /\ EntriesOf(this) = EntriesOf(pre) \o <<<<last.key, last.value>>>>

\* C17 (as claimed): the constructor given initial entries and no limit, or
\* the limit 0, throws nothing, sets the limit to the number of entries
\* loaded, and the next set of a new key evicts the oldest loaded entry.
C17_LimitFromLoad ==
    last.op = "new" =>
        \A es \in EntryLists, limitGiven \in BOOLEAN :
            LET r == ConstructorOp(lifetime, limitGiven, 0, TRUE, es, now) IN
            /\ r.err = "none"
            /\ r.c.limit = Len(es)
            /\ Len(Chain(r.c)) = Len(es)
            /\ es # <<>> =>
                 \A k \in Keys \ PairKeys(es), v \in Vals :
                    LET s == SetOp(r.c, k, v, now) IN
                    /\ s.err = "none"
                    /\ EntriesOf(s.c) = Tail(es) \o <<<<k, v>>>>
                    /\ IndexKeys(s.c) = (PairKeys(es) \ {es[1][1]}) \cup {k}

\* C18: find(k) leaves the whole state as it was (order, size, index,
\* timestamps), returns the value stored under k whenever k is in the
\* index, expired or not, and undefined only when k is not in the index.
C18_FindPeeks ==
    last.op = "find" =>
        /\ Returned
        /\ this = pre
        /\ MapHas(pre.keymap, last.key) => last.ret = Stored(pre, last.key)
        /\ (last.ret = Undefined) <=> ~MapHas(pre.keymap, last.key)

\* a find returned the value of an entry older than the lifetime, which is
\* not the newest entry, and the entry is still there
C18_Witness ==
    /\ last.op = "find"
    /\ lifetime # 0
    /\ MapHas(pre.keymap, last.key)
    /\ Expired(pre, pre.keymap[last.key], last.at)
    /\ pre.keymap[last.key] # pre.head
    /\ last.ret = Stored(this, last.key)

\* C19: has(k) leaves the entries that stay in their order: a has that
\* returns true or finds no key changes nothing, a has that finds k expired
\* removes k alone; and after a has(k) that returned true for the oldest
\* key of a full cache, the set of a new key still evicts that key: it
\* leaves the index and its oldest entry leaves the chain.
C19_HasKeepsOrder ==
    last.op = "has" =>
        /\ Returned
        /\ (last.ret = TRUE \/ ~MapHas(pre.keymap, last.key)) => this = pre
        /\ (last.ret = FALSE /\ MapHas(pre.keymap, last.key)) =>
              EntriesOf(this) =
                 Shown(pre, Without(Chain(pre), pre.keymap[last.key]))
        /\ (last.ret = TRUE /\ size = limit /\ KeysOf(pre) # <<>>
              /\ Head(KeysOf(pre)) = last.key) =>
              \A k \in Keys \ IndexKeys(this), v \in Vals :
                 LET s == SetOp(this, k, v, now) IN
                 /\ s.err = "none"
                 /\ ~MapHas(s.c.keymap, last.key)
                 /\ tail \notin Range(Chain(s.c))

\* a has returned true for the oldest of two entries of a full cache
C19_Witness ==
    /\ last.op = "has"
    /\ last.ret = TRUE
    /\ size = limit
    /\ Len(KeysOf(pre)) = 2
    /\ Head(KeysOf(this)) = last.key

\* The cache new LRUCache(lt, lim) leaves behind.
Fresh(lt, lim) == ConstructorOp(lt, TRUE, lim, FALSE, <<>>, 0).c

\* C20: after clear() size is 0, the index is empty, both ends are
\* undefined, the traversal yields nothing, limit and lifetime are as
\* before, and the cache is in the state of a freshly constructed empty
\* cache of that limit and lifetime, so that every later call does what it
\* does on the fresh cache.  (this[CREATED_AT] of the cache object, which no
\* method reads, is left out of the comparison.)
C20_Clear ==
    last.op = "clear" =>
        /\ Returned
        /\ size = 0
        /\ IndexKeys(this) = {}
        /\ tail = NoEntry
        /\ head = NoEntry
        /\ EntriesOf(this) = <<>>
        /\ limit = pre.limit
        /\ lifetime = pre.lifetime
        /\ [this EXCEPT !.ownCreatedAt = NoTime] = Fresh(pre.lifetime, pre.limit)

\* a clear was made on a cache whose chain, index and size disagreed
C20_Witness ==
    /\ last.op = "clear"
    /\ Chain(pre) # <<>>
    /\ pre.size # Len(Chain(pre))
    /\ IndexKeys(pre) # {}

\* C21 (as claimed): with lifetime 0, at every later reading of the clock,
\* has(k) returns true and get(k) returns for every key of the index, and no
\* has or get removes an entry.
C21_NoExpiryAtZero ==
    lifetime = 0 =>
        \A k \in Keys, t \in Later :
            LET h == HasOp(this, k, t)
                g == GetOp(this, k, t)
            IN /\ MapHas(keymap, k) =>
                    (h.err = "none" /\ h.ret = TRUE /\ g.err = "none")
               /\ h.c = this
               /\ IndexKeys(g.c) = IndexKeys(this)
               /\ g.c.size = size
               /\ Range(Chain(g.c)) = Range(Chain(this))

\* the keys of the index of c whose entry is older than the lifetime at t
ExpiredKeys(c, t) ==
    {k \in IndexKeys(c) : c.lifetime # 0 /\ Expired(c, c.keymap[k], t)}

\* C22: the clock alone changes nothing; an expired entry is still in the
\* index, counted in size, traversed and returned by find; a has or get of
\* k removes at most k, and only when k has expired, and leaves every other
\* key, expired or not, in its place.
C22_LazyExpiry ==
    /\ last.op = "tick" => this = pre
    /\ \A k \in ExpiredKeys(this, now) :
          /\ k \in Range(KeysOf(this))
          /\ FindOp(this, k).ret = Stored(this, k)
          /\ size = Len(Chain(this))
          /\ size = MapSize(keymap)
    /\ last.op \in {"has", "get"} =>
          /\ IndexKeys(pre) \ {last.key} = IndexKeys(this) \ {last.key}
          /\ Without(KeysOf(pre), last.key) = Without(KeysOf(this), last.key)
          /\ (MapHas(pre.keymap, last.key) /\ ~MapHas(keymap, last.key)) =>
                last.key \in ExpiredKeys(pre, last.at)

\* a has removed its expired key while another expired key stayed
C22_Witness ==
    /\ last.op = "has"
    /\ last.ret = FALSE
    /\ MapHas(pre.keymap, last.key)
    /\ ExpiredKeys(this, now) # {}

\* C23 (as claimed): a call throws nothing but notFound, from get, and
\* overflow, from assign.
C23_OnlyTwoErrors ==
    \/ last.err = "none"
    \/ (last.op = "get" /\ last.err = "notFound")
    \/ (last.op = "assign" /\ last.err = "overflow")

\* C24: delete(k) of a key that is not in the index returns undefined and
\* leaves the whole state as it was.
C24_DeleteAbsent ==
    (last.op = "delete" /\ ~MapHas(pre.keymap, last.key)) =>
        /\ Returned
        /\ last.ret = Undefined
        /\ this = pre

\* a delete of an absent key was made on a cache holding two entries
C24_Witness ==
    /\ last.op = "delete"
    /\ ~MapHas(pre.keymap, last.key)
    /\ Len(Chain(pre)) = 2
    /\ size = 2

\* The sequences of at most MaxSets set calls, each a <<key, value>> pair.
SetSeqs == UNION {[1..n -> Keys \X Vals] : n \in 0..MaxSets}

\* The cache after the calls set(seq[i][1], seq[i][2]) for i, i + 1, ...
RECURSIVE SetAll(_, _, _, _)
SetAll(c, seq, i, t) ==
    IF i > Len(seq) THEN Res(c, Undefined, "none")
    ELSE LET s == SetOp(c, seq[i][1], seq[i][2], t) IN
         IF s.err # "none" THEN s ELSE SetAll(s.c, seq, i + 1, t)

\* the value of the last pair of seq whose key is k
LastValue(seq, k) ==
    LET i == CHOOSE i \in DOMAIN seq :
                /\ seq[i][1] = k
                /\ \A j \in DOMAIN seq : seq[j][1] = k => j <= i
    IN seq[i][2]

ForEachOf(c) ==
    [i \in 1..Len(Chain(c)) |->
        <<c.heap[Chain(c)[i]].value, c.heap[Chain(c)[i]].key>>]

\* toJSON(): an array created with new Array(this.size), which throws a
\* RangeError when size is negative, then filled from index 0 with one
\* object {key, value} per entry walked: length is the array's length,
\* items the slots filled.
ToJSONOp(c) ==
    IF c.size < 0 THEN Res(c, [length |-> 0, items |-> <<>>], "RangeError")
    ELSE Res(c,
             [length |-> IF c.size > Len(Chain(c)) THEN c.size
                         ELSE Len(Chain(c)),
              items  |-> [i \in 1..Len(Chain(c)) |->
                            [key   |-> c.heap[Chain(c)[i]].key,
                             value |-> c.heap[Chain(c)[i]].value]]],
             "none")

\* toString(): key:value for every entry walked, followed by " < " when
\* another entry comes after it.
ToStringOf(c) ==
    [i \in 1..Len(Chain(c)) |->
        [key   |-> c.heap[Chain(c)[i]].key,
         value |-> c.heap[Chain(c)[i]].value,
         sep   |-> c.heap[Chain(c)[i]].prev # NoEntry]]

PropertyOf(obj, name) == IF name \in DOMAIN obj THEN obj[name] ELSE Undefined

\* assign(json) for an array returned by toJSON: assign reads itv.value[0]
\* and itv.value[1] of every item.  An empty slot of the array is iterated
\* as undefined, whose [0] throws a TypeError before head and size are set.
AssignJSONOp(c, json, t) ==
    LET pairs == [i \in 1..Len(json.items) |->
                    <<PropertyOf(json.items[i], "0"),
                      PropertyOf(json.items[i], "1")>>]
        r == AssignOp(c, pairs, t)
    IN IF json.length = Len(json.items) \/ r.err # "none" THEN r
       ELSE Res([r.c EXCEPT !.head = c.head, !.size = c.size],
                Undefined, "TypeError")

\* C27 (as claimed): assign(c.toJSON()) on a fresh cache whose limit is at
\* least c.size returns and leaves a cache whose traversal has the keys and
\* values of c in the order of c.
C27_RoundTrip ==
    /\ ToJSONOp(this).err = "none"
    /\ \A lim \in 1..(MaxLimit + 1) :
          lim >= size =>
              LET r == AssignJSONOp(Fresh(lifetime, lim), ToJSONOp(this).ret, now)
              IN /\ r.err = "none"
                 /\ EntriesOf(r.c) = EntriesOf(this)


\* ------------------------------------------- invocations of removeLRUItem
\* The items returned by the invocations of this.removeLRUItem() made while
\* the call op runs on c, which is what a wrapper installed on the method
\* sees.  set invokes it after inserting a new key, when size exceeds limit;
\* has, get, find, delete, clear and assign contain no invocation.
RemoveLRUItemCalls(c, op, key, value, t) ==
    IF op = "removeLRUItem" THEN {RemoveLRUItemOp(c).ret} \ {<<>>}
    ELSE IF op = "set" /\ ~MapHas(c.keymap, key) /\ c.size + 1 > c.limit
              /\ SetOp(c, key, value, t).err = "none"
    THEN {RemoveLRUItemOp(
              SetOp([c EXCEPT !.limit = c.size + 1], key, value, t).c).ret}
         \ {<<>>}
    ELSE {}

\* The items of the entries that the last call took out of the index.
Left == {<<k, Stored(pre, k)>> : k \in IndexKeys(pre) \ IndexKeys(this)}

\* C28 (as claimed): every entry that a call takes out of the cache was
\* returned by an invocation of removeLRUItem made during that call.
C28_RemoveLRUItemSeesAll ==
    (last.op # "new" /\ last.op # "tick") =>
        Left \subseteq RemoveLRUItemCalls(pre, last.op, last.key, last.value,
                                          last.at)


\* ------------------------------------------------ LRUMap of src/lru.js
\* The variant with the ends tail (oldest) and newest, and no lifetime.  Its
\* state is a record m with the fields heap, keymap, tail, newest, size and
\* limit; its entries have no created_at.
LRUMapEntry(key, value) ==
    [key |-> key, value |-> value, prev |-> NoEntry, next |-> NoEntry]

\* _markEntryAsUsed(entry): every dereference is guarded.
LRUMapMarkEntryAsUsed(m, entry) ==
    IF entry = m.newest THEN m
    ELSE
      LET p  == m.heap[entry].prev
          n  == m.heap[entry].next
          m1 == IF p # NoEntry
                THEN [m EXCEPT !.tail = IF entry = m.tail THEN p ELSE @,
                               !.heap = SetNext(@, p, n)]
                ELSE m
          m2 == IF n # NoEntry THEN [m1 EXCEPT !.heap = SetPrev(@, n, p)]
                ELSE m1
          h3 == SetNext(SetPrev(m2.heap, entry, NoEntry), entry, m.newest)
          h4 == IF m.newest # NoEntry THEN SetPrev(h3, m.newest, entry) ELSE h3
      IN [m2 EXCEPT !.heap = h4, !.newest = entry]

\* assign(entries)
RECURSIVE LRUMapAssignLoop(_, _, _, _, _)
LRUMapAssignLoop(m, entries, i, entry, budget) ==
    IF i > Len(entries)
    THEN Res([m EXCEPT !.newest = entry, !.size = MapSize(m.keymap)],
             Undefined, "none")
    ELSE
      LET e  == Len(m.heap) + 1
          h0 == Append(m.heap, LRUMapEntry(entries[i][1], entries[i][2]))
          m1 == [m EXCEPT !.heap = h0,
                          !.keymap = MapSet(@, entries[i][1], e)]
          m2 == IF entry = NoEntry
                THEN [m1 EXCEPT !.tail = e]
                ELSE [m1 EXCEPT !.heap = SetNext(SetPrev(@, entry, e),
                                                 e, entry)]
      IN IF budget = 0 THEN Res(m2, Undefined, "overflow")
         ELSE LRUMapAssignLoop(m2, entries, i + 1, e,
                  IF budget = Unbounded THEN Unbounded ELSE budget - 1)

LRUMapAssignOp(m, entries) ==
    LRUMapAssignLoop([m EXCEPT !.keymap = MapClear], entries, 1, NoEntry,
                     IF m.limit # 0 THEN m.limit ELSE Unbounded)

\* LRUMap(limit, entries)
LRUMapOp(limitGiven, lim, entriesGiven, entries) ==
    LET l0 == IF limitGiven THEN lim ELSE 0
        m0 == [heap |-> <<>>, keymap |-> MapClear, tail |-> NoEntry,
               newest |-> NoEntry, size |-> 0, limit |-> l0]
    IN IF entriesGiven
       THEN LET a == LRUMapAssignOp(m0, entries) IN
            IF a.err # "none" THEN a
            ELSE IF l0 < 1 THEN Res([a.c EXCEPT !.limit = a.c.size],
                                    Undefined, "none")
            ELSE a
       ELSE Res(m0, Undefined, "none")

\* purgeRemovedEntry(entry)
LRUMapPurgeRemovedEntry(m, entry) ==
    IF entry = NoEntry THEN Res(m, Undefined, "TypeError")
    ELSE LET h1 == SetNext(SetPrev(m.heap, entry, NoEntry), entry, NoEntry)
         IN Res([m EXCEPT !.heap = h1,
                          !.keymap = MapDelete(m.keymap, h1[entry].key)],
                Undefined, "none")

\* removeLRUItem().  With one entry left it sets this.tail and this.head to
\* undefined: head is a property no method of this variant reads, and
\* newest keeps the removed entry.
LRUMapRemoveLRUItemOp(m) ==
    IF m.size = 0 THEN Res(m, <<>>, "none")
    ELSE
      LET entry == m.tail IN
      IF m.size = 1
      THEN LET m1 == [m EXCEPT !.tail = NoEntry, !.size = @ - 1]
               p  == LRUMapPurgeRemovedEntry(m1, entry)
           IN IF p.err # "none" THEN Res(p.c, <<>>, p.err)
              ELSE Res(p.c, <<p.c.heap[entry].key, p.c.heap[entry].value>>, "none")
      ELSE IF m.tail = NoEntry THEN Res(m, <<>>, "TypeError")
      ELSE LET t1 == m.heap[m.tail].prev
               m1 == [m EXCEPT !.tail = t1]
           IN IF t1 = NoEntry THEN Res(m1, <<>>, "TypeError")
              ELSE LET m2 == [m1 EXCEPT !.heap = SetNext(@, t1, NoEntry),
                                        !.size = @ - 1]
                       p  == LRUMapPurgeRemovedEntry(m2, entry)
                   IN Res(p.c, <<p.c.heap[entry].key, p.c.heap[entry].value>>,
                          "none")

\* get(key): undefined for a key that is not in the Map.
LRUMapGetOp(m, key) ==
    LET entry == MapGet(m.keymap, key) IN
    IF entry = NoEntry THEN Res(m, Undefined, "none")
    ELSE Res(LRUMapMarkEntryAsUsed(m, entry), m.heap[entry].value, "none")

\* set(key, value): the list is taken to be empty when newest is undefined.
LRUMapSetOp(m, key, value) ==
    LET found == MapGet(m.keymap, key) IN
    IF found # NoEntry
    THEN Res(LRUMapMarkEntryAsUsed([m EXCEPT !.heap = SetValue(@, found, value)],
                                   found),
             Undefined, "none")
    ELSE
      LET entry == Len(m.heap) + 1
          h0 == Append(m.heap, LRUMapEntry(key, value))
          m1 == [m EXCEPT !.heap = h0, !.keymap = MapSet(@, key, entry)]
          m2 == IF m.newest # NoEntry
                THEN [m1 EXCEPT !.heap = SetNext(SetPrev(@, m.newest, entry),
                                                 entry, m.newest)]
                ELSE [m1 EXCEPT !.tail = entry]
          m3 == [m2 EXCEPT !.newest = entry, !.size = @ + 1]
      IN IF m3.size > m3.limit
         THEN LET r == LRUMapRemoveLRUItemOp(m3) IN Res(r.c, Undefined, r.err)
         ELSE Res(m3, Undefined, "none")

LRUMapFindOp(m, key) ==
    LET e == MapGet(m.keymap, key) IN
    Res(m, IF e # NoEntry THEN m.heap[e].value ELSE Undefined, "none")

LRUMapHasOp(m, key) == Res(m, MapHas(m.keymap, key), "none")

LRUMapDeleteOp(m, key) ==
    LET entry == MapGet(m.keymap, key) IN
    IF entry = NoEntry THEN Res(m, Undefined, "none")
    ELSE
      LET km == MapDelete(m.keymap, m.heap[entry].key)
          p  == m.heap[entry].prev
          n  == m.heap[entry].next
          m1 == IF p # NoEntry /\ n # NoEntry
                THEN LET h1 == SetPrev(m.heap, n, p)
                     IN [m EXCEPT !.heap = SetNext(h1, h1[entry].prev,
                                                   h1[entry].next)]
                ELSE IF p # NoEntry
                THEN [m EXCEPT !.heap = SetNext(@, p, NoEntry), !.tail = p]
                ELSE IF n # NoEntry
                THEN [m EXCEPT !.heap = SetPrev(@, n, NoEntry), !.newest = n]
                ELSE [m EXCEPT !.tail = NoEntry, !.newest = NoEntry]
      IN Res([m1 EXCEPT !.keymap = km, !.size = @ - 1],
             m.heap[entry].value, "none")

LRUMapClearOp(m) ==
    Res([m EXCEPT !.tail = NoEntry, !.newest = NoEntry, !.size = 0,
                  !.keymap = MapClear], Undefined, "none")


\* keys(), values() and the entry iterator of LRUMap start from this.tail.
LRUMapEntriesOf(m) ==
    LET ch == Walk(m.heap, m.tail, Len(m.heap) + 1)
    IN [i \in 1..Len(ch) |-> <<m.heap[ch[i]].key, m.heap[ch[i]].value>>]

\* --------------------------------------------- the two variants side by side
\* The calls made on both variants: set, get, has, find, delete,
\* removeLRUItem, clear and assign, the latter with lists of one value.
MaxOps == 3
VariantLists == {es \in EntryLists : \A i \in 1..Len(es) : es[i][2] = 1}
VariantOps ==
    {[op |-> "set", key |-> k, value |-> v, entries |-> <<>>] :
        k \in Keys, v \in Vals}
    \cup {[op |-> o, key |-> k, value |-> 0, entries |-> <<>>] :
        o \in {"get", "has", "find", "delete"}, k \in Keys}
    \cup {[op |-> o, key |-> 0, value |-> 0, entries |-> <<>>] :
        o \in {"removeLRUItem", "clear"}}
    \cup {[op |-> "assign", key |-> 0, value |-> 0, entries |-> es] :
        es \in VariantLists}

\* The call o on an LRUCache c at time t, and on an LRUMap m.
CacheDo(c, o, t) ==
    CASE o.op = "set"           -> SetOp(c, o.key, o.value, t)
      [] o.op = "get"           -> GetOp(c, o.key, t)
      [] o.op = "has"           -> HasOp(c, o.key, t)
      [] o.op = "find"          -> FindOp(c, o.key)
      [] o.op = "delete"        -> DeleteOp(c, o.key)
      [] o.op = "removeLRUItem" -> RemoveLRUItemOp(c)
      [] o.op = "clear"         -> ClearOp(c)
      [] o.op = "assign"        -> AssignOp(c, o.entries, t)

MapDo(m, o) ==
    CASE o.op = "set"           -> LRUMapSetOp(m, o.key, o.value)
      [] o.op = "get"           -> LRUMapGetOp(m, o.key)
      [] o.op = "has"           -> LRUMapHasOp(m, o.key)
      [] o.op = "find"          -> LRUMapFindOp(m, o.key)
      [] o.op = "delete"        -> LRUMapDeleteOp(m, o.key)
      [] o.op = "removeLRUItem" -> LRUMapRemoveLRUItemOp(m)
      [] o.op = "clear"         -> LRUMapClearOp(m)
      [] o.op = "assign"        -> LRUMapAssignOp(m, o.entries)

\* One call made on both members of a pair p; same records whether every
\* call so far returned or threw the same on both.  get is called for a key
\* that both have.
Both(p, o) ==
    LET rc == CacheDo(p.c, o, 0)
        rm == MapDo(p.m, o)
    IN [c |-> rc.c, m |-> rm.c,
        same |-> p.same /\ rc.err = rm.err /\ rc.ret = rm.ret]

\* The pairs reached from new LRUCache(0, lim) and new LRUMap(lim) by at
\* most n calls.
RECURSIVE Runs(_, _)
Runs(lim, n) ==
    IF n = 0
    THEN {[c |-> Fresh(0, lim), m |-> LRUMapOp(TRUE, lim, FALSE, <<>>).c,
           same |-> TRUE]}
    ELSE UNION {{p} \cup {Both(p, o) :
                    o \in {x \in VariantOps :
                              x.op = "get" => /\ MapHas(p.c.keymap, x.key)
                                              /\ MapHas(p.m.keymap, x.key)}} :
                p \in Runs(lim, n - 1)}

\* C29 (as claimed): in LRUCache, and in the LRUMap of src/lru.js after any
\* calls, size is 0 exactly when both ends of the chain are undefined.
C29_EmptyIsCanonical ==
    /\ (size = 0) <=> (tail = NoEntry /\ head = NoEntry)
    /\ (last.op = "new" /\ size = 0 /\ lifetime = 0) =>
          \A p \in Runs(limit, MaxOps) :
              (p.m.size = 0) <=> (p.m.tail = NoEntry /\ p.m.newest = NoEntry)


\* C30 (as claimed): new LRUCache(0, limit) and new LRUMap(limit), given the
\* same calls, return or throw the same at every call and have the same
\* traversal after it.
C30_VariantsAgree ==
    (last.op = "new" /\ size = 0 /\ lifetime = 0) =>
        \A p \in Runs(limit, MaxOps) :
            /\ p.same
            /\ LRUMapEntriesOf(p.m) = EntriesOf(p.c)


\* C31: a get(k) that returns leaves k newest and k's creation time as it
\* was, and a has(k) made more than lifetime minutes after k was created
\* returns false and deletes k, whatever get read k in between; so does a
\* has(k) made more than lifetime minutes after a set(k, v), with a get(k)
\* in between.
C31_GetKeepsAge ==
    lifetime # 0 =>
        /\ (last.op = "get" /\ Returned) =>
              /\ Last(KeysOf(this)) = last.key
              /\ heap[keymap[last.key]].created_at =
                    pre.heap[pre.keymap[last.key]].created_at
              /\ \A t2 \in Later :
                    (t2 - heap[keymap[last.key]].created_at
                        > lifetime * MsPerMinute) =>
                        /\ HasOp(this, last.key, t2).ret = FALSE
                        /\ ~MapHas(HasOp(this, last.key, t2).c.keymap, last.key)
        /\ \A k \in IndexKeys(this), v \in Vals, t1 \in Later, t2 \in Later :
              LET s == SetOp(this, k, v, now)
                  g == GetOp(s.c, k, t1)
              IN (s.err = "none" /\ g.err = "none" /\ t2 >= t1
                  /\ t2 - now > lifetime * MsPerMinute) =>
                     /\ g.c.heap[g.c.keymap[k]].created_at
                           = s.c.heap[s.c.keymap[k]].created_at
                     /\ HasOp(g.c, k, t2).ret = FALSE

\* get(k) returned at the last moment k was live; a has(k) one step later
\* returns false
C31_Witness ==
    /\ last.op = "get"
    /\ Returned
    /\ lifetime # 0
    /\ now - heap[keymap[last.key]].created_at = lifetime * MsPerMinute
    /\ now > 0
    /\ HasOp(this, last.key, now + ClockStep).ret = FALSE


\* C32 (as claimed): an assign that throws overflow leaves the cache as it
\* was before the call: the same traversal, index, values, size and ends,
\* at most limit entries, and has and find as before; and so for the LRUMap
\* of src/lru.js.
C32_FailedAssignAtomic ==
    /\ (last.op = "assign" /\ last.err = "overflow") =>
          /\ EntriesOf(this) = EntriesOf(pre)
          /\ IndexKeys(this) = IndexKeys(pre)
          /\ \A k \in IndexKeys(this) \cap IndexKeys(pre) :
                Stored(this, k) = Stored(pre, k)
          /\ size = pre.size
          /\ (tail = NoEntry) <=> (pre.tail = NoEntry)
          /\ (head = NoEntry) <=> (pre.head = NoEntry)
          /\ Shown(this, BackChain(this)) = Shown(pre, BackChain(pre))
          /\ Len(Chain(this)) <= limit
          /\ \A k \in Keys :
                /\ HasOp(this, k, now).ret = HasOp(pre, k, now).ret
                /\ FindOp(this, k).ret = FindOp(pre, k).ret
    /\ (last.op = "new" /\ size = 0 /\ lifetime = 0) =>
          \A p \in Runs(limit, 1), es \in VariantLists :
              LRUMapAssignOp(p.m, es).err = "overflow" =>
                  LRUMapAssignOp(p.m, es).c = p.m


\* C33 (as claimed): after an assign, or a constructor's load, of pairs
\* with repeated keys returned, the chain holds one entry for every key of
\* the input, carrying the last value given for it, size is the number of
\* those keys and the length of the chain, and a delete or an eviction of a
\* key takes it out of the index and of the chain.
C33_RepeatedKeys ==
    (last.op \in {"assign", "new"} /\ Returned) =>
        /\ size = Cardinality(PairKeys(last.entries))
        /\ Len(Chain(this)) = size
        /\ Range(KeysOf(this)) = PairKeys(last.entries)
        /\ IndexKeys(this) = PairKeys(last.entries)
        /\ \A i \in 1..Len(Chain(this)) :
              ValuesOf(this)[i] = LastValue(last.entries, KeysOf(this)[i])
        /\ \A k \in IndexKeys(this) :
              /\ Stored(this, k) = LastValue(last.entries, k)
              /\ k \notin IndexKeys(DeleteOp(this, k).c)
              /\ k \notin Range(KeysOf(DeleteOp(this, k).c))
        /\ \A e \in {RemoveLRUItemOp(this)} :
              e.ret # <<>> =>
                  /\ e.ret[1] \notin IndexKeys(e.c)
                  /\ e.ret[1] \notin Range(KeysOf(e.c))


\* C34 (as claimed): a set of a new key that makes size exceed limit
\* removes the oldest entry of the list, expired or not, and no other: the
\* traversal loses its first entry and gains the new one at the end, and
\* every other key, expired or not, stays in the index.
C34_EvictionIgnoresExpiry ==
    (last.op = "set" /\ ~MapHas(pre.keymap, last.key)
        /\ pre.size + 1 > pre.limit) =>
        /\ Returned
        /\ EntriesOf(this) =
              Tail(EntriesOf(pre) \o <<<<last.key, last.value>>>>)
        /\ IndexKeys(this) =
              (IndexKeys(pre) \cup {last.key})
                 \ {Head(KeysOf(pre) \o <<last.key>>)}
        /\ size = pre.size
        /\ \A k \in ExpiredKeys(pre, last.at) :
              k # Head(KeysOf(pre)) => k \in ExpiredKeys(this, now)


\* C35: no method changes limit or lifetime, in LRUCache and in the LRUMap
\* of src/lru.js; an assign on a cache whose limit is 0 leaves it 0.
C35_LimitFixed ==
    /\ last.op # "new" => (limit = pre.limit /\ lifetime = pre.lifetime)
    /\ (last.op = "new" /\ size = 0 /\ lifetime = 0) =>
          \A p \in Runs(limit, MaxOps) :
              /\ p.c.limit = limit
              /\ p.c.lifetime = lifetime
              /\ p.m.limit = limit

\* an assign of two pairs returned on a cache whose limit is 0
C35_Witness ==
    /\ last.op = "assign"
    /\ Returned
    /\ pre.limit = 0
    /\ Len(last.entries) = 2
    /\ size = 2
    /\ limit = 0

=============================================================================
